---- MODULE Spec2Model ----
(***************************************************************************)
(* Test Coordination Service of lazy-bird (scripts/godot-server.py):       *)
(* the JobQueue (registry, admission channel, active job, lock), the       *)
(* TestExecutor's status-changing steps and the worker thread, with the    *)
(* HTTP handlers that submit, cancel and sweep running concurrently.       *)
(*                                                                         *)
(* Atomicity follows the code's locks.  Everything JobQueue does inside    *)
(* `with self.lock` excludes every other holder of the lock; the writes    *)
(* TestExecutor.execute makes to the job object are made WITHOUT the lock  *)
(* and therefore interleave with a lock holder that reads and then writes  *)
(* the same object (cancel_job), which is modelled in separate steps.      *)
(*                                                                         *)
(* Time is a logical clock: datetime.now() is taken to be non-decreasing,  *)
(* and two calls may return the same value.                                *)
(***************************************************************************)
EXTENDS Integers, Sequences, FiniteSets, TLC

\* Number of TestJob objects the HTTP handlers create in one run.
MaxJobs == 3
\* Largest value of the logical clock.
MaxTime == 1
\* MAX_QUEUE_SIZE, godot-server.py:58: 50 in the source, 2 here, which keeps every
\* case of the capacity check (below, at and above the maximum) within MaxJobs.
MAX_QUEUE_SIZE == 2

Ids == 1..MaxJobs
NoJob == 0
NoTime == -1

\* JobStatus values, godot-server.py:73-80
QUEUED == "queued"
RUNNING == "running"
COMPLETE == "complete"
FAILED == "failed"
TIMEOUT == "timeout"
CANCELLED == "cancelled"
JobStatus == {QUEUED, RUNNING, COMPLETE, FAILED, TIMEOUT, CANCELLED}
Terminal == {COMPLETE, FAILED, TIMEOUT, CANCELLED}

\* Priority values, godot-server.py:83-87
Priority == {1, 2, 3}
NORMAL == 2

\* The `days` arguments cleanup_old_jobs is called with (one clock unit is a day).
SweepDays == {0, 1}
\* The `maxsize` arguments JobQueue is constructed with in SpecCap.
Capacities == {MAX_QUEUE_SIZE - 1, MAX_QUEUE_SIZE, MAX_QUEUE_SIZE + 1}

\* ------------------------------------------------- TestExecutor: text and numbers

\* Largest count in the triples the test command's output and report are drawn from.
MaxCount == 1
\* Largest number of lines of the test command's output.
MaxLines == 2
\* DEFAULT_TIMEOUT, godot-server.py:59
DEFAULT_TIMEOUT == 300
\* The `timeout` values submit_test stores in timeout_seconds, godot-server.py:482
Timeouts == {DEFAULT_TIMEOUT, 60}
\* The `framework` values submit_test stores, godot-server.py:481
Frameworks == {"gdUnit4", "GUT", "unittest"}

\* A text (job.output, an XML attribute) is a sequence of symbols: one symbol per
\* character, except that a word is one symbol.
DigitChars == <<"0", "1", "2", "3", "4", "5", "6", "7", "8", "9">>
Digit == {DigitChars[i] : i \in 1..Len(DigitChars)}
Whitespace == {" ", "\n"}
Words == {"tests", "Tests", "passed", "Passed", "PASSED", "failed", "Failed", "run",
          "Passing", "Failing", "All", "OK", "x"}
Alphabet == Digit \cup Whitespace \cup {":", ",", "=", "-"} \cup Words
\* What `.` matches without re.DOTALL
AnyButNewline == Alphabet \ {"\n"}

\* str.lower() of a symbol, which is what re.IGNORECASE compares
Lower(c) ==
    CASE c \in {"tests", "Tests"} -> "tests"
      [] c \in {"passed", "Passed", "PASSED"} -> "passed"
      [] c \in {"failed", "Failed"} -> "failed"
      [] c = "Passing" -> "passing"
      [] c = "Failing" -> "failing"
      [] c = "All" -> "all"
      [] c = "OK" -> "ok"
      [] OTHER -> c

DigitValue(d) == (CHOOSE i \in 1..Len(DigitChars) : DigitChars[i] = d) - 1

RECURSIVE DigitsValue(_)
\* int(s) for a non-empty string of decimal digits
DigitsValue(s) ==
    IF s = <<>> THEN 0
    ELSE 10 * DigitsValue(SubSeq(s, 1, Len(s) - 1)) + DigitValue(s[Len(s)])

IsDigits(s) == s # <<>> /\ \A i \in 1..Len(s) : s[i] \in Digit

\* int(s) returns a value (otherwise it raises ValueError): an optional sign, then digits
IsInt(s) == IsDigits(s) \/ (s # <<>> /\ s[1] = "-" /\ IsDigits(Tail(s)))

\* int(s), godot-server.py:365-366, 384-386, 406-410
int(s) == IF s[1] = "-" THEN 0 - DigitsValue(Tail(s)) ELSE DigitsValue(s)

RECURSIVE str(_)
\* str(n) of n >= 0: how a number is printed (the f-string of godot-server.py:286,
\* and the counts the test command prints)
str(n) == IF n < 10 THEN <<DigitChars[n + 1]>> ELSE str(n \div 10) \o <<DigitChars[(n % 10) + 1]>>

\* ------------------------------------------------- TestExecutor: re.search

\* A pattern is a sequence of items: a class of symbols, how often it repeats
\* ("1": once, "+": one or more, "*": any number, both greedy) and the number of
\* the capturing group the item is, or 0.
One(cls) == [cls |-> cls, rep |-> "1", grp |-> 0]
Plus(cls) == [cls |-> cls, rep |-> "+", grp |-> 0]
Star(cls) == [cls |-> cls, rep |-> "*", grp |-> 0]
\* (\d+)
Group(n) == [cls |-> Digit, rep |-> "+", grp |-> n]
\* A literal stretch of a pattern
Literal(s) == [i \in 1..Len(s) |-> One({s[i]})]

NoMatch == [ok |-> FALSE, groups |-> <<>>]

\* Whether symbol c is in the item's class, under re.IGNORECASE or not
Accepts(item, c, ignorecase) ==
    IF ignorecase THEN Lower(c) \in {Lower(a) : a \in item.cls} ELSE c \in item.cls

RECURSIVE RunLength(_, _, _, _)
\* The number of symbols of t from position p on that the item accepts
RunLength(item, t, p, ignorecase) ==
    IF p <= Len(t) /\ Accepts(item, t[p], ignorecase)
    THEN 1 + RunLength(item, t, p + 1, ignorecase)
    ELSE 0

RECURSIVE match_here(_, _, _, _, _), match_repeat(_, _, _, _, _, _)
\* The backtracking matcher of re: items k.. of the pattern against t from position
\* p; it answers with the first match in its order of preference.
match_here(pat, k, t, p, ignorecase) ==
    IF k > Len(pat) THEN [ok |-> TRUE, groups |-> [g \in 1..3 |-> <<>>]]
    ELSE IF pat[k].rep = "1"
         THEN IF p <= Len(t) /\ Accepts(pat[k], t[p], ignorecase)
              THEN match_here(pat, k + 1, t, p + 1, ignorecase)
              ELSE NoMatch
         ELSE match_repeat(pat, k, t, p, RunLength(pat[k], t, p, ignorecase), ignorecase)

\* A greedy item: n repetitions, and on failure of the rest one fewer
match_repeat(pat, k, t, p, n, ignorecase) ==
    IF n < (IF pat[k].rep = "+" THEN 1 ELSE 0) THEN NoMatch
    ELSE LET m == match_here(pat, k + 1, t, p + n, ignorecase) IN
         IF m.ok
         THEN IF pat[k].grp > 0
              THEN [m EXCEPT !.groups[pat[k].grp] = SubSeq(t, p, p + n - 1)]
              ELSE m
         ELSE match_repeat(pat, k, t, p, n - 1, ignorecase)

\* re.search(pattern, text, flags): the match at the leftmost position that has one
re_search(pat, t, ignorecase) ==
    LET starts == {p \in 1..(Len(t) + 1) : match_here(pat, 1, t, p, ignorecase).ok} IN
    IF starts = {} THEN NoMatch
    ELSE match_here(pat, 1, t, CHOOSE p \in starts : \A q \in starts : p <= q, ignorecase)

\* len(match.groups()): the number of groups of the pattern
groups_of(pat) == Cardinality({k \in 1..Len(pat) : pat[k].grp > 0})

\* `needle in text`, godot-server.py:418
Contains(t, needle) ==
    \E p \in 1..(Len(t) - Len(needle) + 1) : SubSeq(t, p, p + Len(needle) - 1) = needle

\* r'Tests run:\s*(\d+)\s+Passing:\s*(\d+)\s+Failing:\s*(\d+)', godot-server.py:380
gut_pattern ==
    Literal(<<"Tests", " ", "run", ":">>) \o <<Star(Whitespace), Group(1), Plus(Whitespace)>>
    \o Literal(<<"Passing", ":">>) \o <<Star(Whitespace), Group(2), Plus(Whitespace)>>
    \o Literal(<<"Failing", ":">>) \o <<Star(Whitespace), Group(3)>>

\* The patterns of _parse_generic, godot-server.py:396-400, in list order:
\*   r'(\d+)\s+tests.*(\d+)\s+passed.*(\d+)\s+failed'
\*   r'Tests:\s*(\d+),\s*Passed:\s*(\d+),\s*Failed:\s*(\d+)'
\*   r'PASSED.*=\s*(\d+)'
patterns == <<
    <<Group(1), Plus(Whitespace), One({"tests"}), Star(AnyButNewline),
      Group(2), Plus(Whitespace), One({"passed"}), Star(AnyButNewline),
      Group(3), Plus(Whitespace), One({"failed"})>>,
    Literal(<<"Tests", ":">>) \o <<Star(Whitespace), Group(1)>>
      \o Literal(<<",">>) \o <<Star(Whitespace)>> \o Literal(<<"Passed", ":">>)
      \o <<Star(Whitespace), Group(2)>>
      \o Literal(<<",">>) \o <<Star(Whitespace)>> \o Literal(<<"Failed", ":">>)
      \o <<Star(Whitespace), Group(3)>>,
    <<One({"PASSED"}), Star(AnyButNewline), One({"="}), Star(Whitespace), Group(1)>> >>

\* ------------------------------------------------- TestExecutor: the job and its results

NoResult == "None"
NoPath == "None"

\* TestJob(...) with every field execute reads or writes, godot-server.py:90-119,
\* as submit_test constructs it (477-487) with framework f and timeout t
ExecJob(f, t) ==
    [framework |-> f, timeout_seconds |-> t, status |-> QUEUED,
     started_at |-> NoTime, completed_at |-> NoTime,
     result |-> NoResult, tests_run |-> 0, tests_passed |-> 0, tests_failed |-> 0,
     output |-> <<>>, error_message |-> <<>>, log_path |-> NoPath, junit_path |-> NoPath]

\* An attribute of the report's testsuite element: absent, or present with a text
NoAttr == [has |-> FALSE, text |-> <<>>]
Attr(s) == [has |-> TRUE, text |-> s]

\* The file results.xml in the job's artifact directory: absent, not well-formed
\* XML, XML whose root has no `testsuite` child, or XML whose root has one
ReportFile(st, t, f, e) == [state |-> st, tests |-> t, failures |-> f, errors |-> e]
NoReport == ReportFile("absent", NoAttr, NoAttr, NoAttr)
Malformed == ReportFile("malformed", NoAttr, NoAttr, NoAttr)
NoTestsuite == ReportFile("no_testsuite", NoAttr, NoAttr, NoAttr)
Testsuite(t, f, e) == ReportFile("testsuite", t, f, e)

\* int(testsuite.get(name, 0)) returns a value (otherwise it raises ValueError)
attr_is_int(a) == (~a.has) \/ IsInt(a.text)
\* int(testsuite.get(name, 0)), godot-server.py:365-366
attr_int(a) == IF a.has THEN int(a.text) ELSE 0

\* godot-server.py:414, 369, 387
passed_or_failed(j) == [j EXCEPT !.result = IF j.tests_failed = 0 THEN "passed" ELSE "failed"]

RECURSIVE parse_generic_from(_, _)
\* _parse_generic, godot-server.py:402-421: the loop over patterns[i..], then the
\* heuristic on the output
parse_generic_from(j, i) ==
    IF i > Len(patterns)
    THEN [j EXCEPT !.result =
             IF Contains(j.output, <<"All", " ", "tests", " ", "passed">>)
                \/ Contains(j.output, <<"OK">>)
             THEN "passed" ELSE "failed"]
    ELSE LET m == re_search(patterns[i], j.output, TRUE) IN
         IF m.ok
         THEN IF groups_of(patterns[i]) >= 3
              THEN passed_or_failed([j EXCEPT !.tests_run = int(m.groups[1]),
                                              !.tests_passed = int(m.groups[2]),
                                              !.tests_failed = int(m.groups[3])])
              ELSE IF groups_of(patterns[i]) = 1
                   THEN passed_or_failed([j EXCEPT !.tests_passed = int(m.groups[1]),
                                                   !.tests_run = int(m.groups[1]),
                                                   !.tests_failed = 0])
                   ELSE passed_or_failed(j)
         ELSE parse_generic_from(j, i + 1)

\* _parse_generic, godot-server.py:391-421
parse_generic(j) == parse_generic_from(j, 1)

\* _parse_gut, godot-server.py:375-389
parse_gut(j) ==
    LET m == re_search(gut_pattern, j.output, FALSE) IN
    IF m.ok
    THEN passed_or_failed([j EXCEPT !.tests_run = int(m.groups[1]),
                                    !.tests_passed = int(m.groups[2]),
                                    !.tests_failed = int(m.groups[3])])
    ELSE parse_generic(j)

\* Mutant of parse_gdunit4: the `errors` attribute is not counted as failures.
parse_gdunit4_without_errors(j, file) ==
    IF file.state = "absent" THEN parse_generic(j)
    ELSE IF file.state = "malformed" THEN parse_generic(j)
    ELSE IF file.state = "no_testsuite" THEN j
    ELSE IF ~attr_is_int(file.tests) THEN parse_generic(j)
    ELSE LET run == [j EXCEPT !.tests_run = attr_int(file.tests)] IN
         IF ~(attr_is_int(file.failures) /\ attr_is_int(file.errors))
         THEN parse_generic(run)
         ELSE LET failed == [run EXCEPT !.tests_failed = attr_int(file.failures)] IN
              passed_or_failed([failed EXCEPT !.tests_passed =
                                   failed.tests_run - failed.tests_failed])

\* _parse_gdunit4, godot-server.py:349-373.  ET.parse raises on a file that is not
\* well-formed, int() on a text that is no integer: the except clause then calls
\* _parse_generic with whatever was assigned before.  With a root that has no
\* testsuite child nothing is assigned and nothing else is called.
parse_gdunit4(j, file) ==
    IF file.state = "absent" THEN parse_generic(j)
    ELSE IF file.state = "malformed" THEN parse_generic(j)
    ELSE IF file.state = "no_testsuite" THEN j
    ELSE IF ~attr_is_int(file.tests) THEN parse_generic(j)
    ELSE LET run == [j EXCEPT !.tests_run = attr_int(file.tests)] IN
         IF ~(attr_is_int(file.failures) /\ attr_is_int(file.errors))
         THEN parse_generic(run)
         ELSE LET failed == [run EXCEPT !.tests_failed =
                                attr_int(file.failures) + attr_int(file.errors)] IN
              passed_or_failed([failed EXCEPT !.tests_passed =
                                   failed.tests_run - failed.tests_failed])

\* _parse_results, godot-server.py:338-347
parse_results(j, file) ==
    IF j.framework = "gdUnit4" THEN parse_gdunit4(j, file)
    ELSE IF j.framework = "GUT" THEN parse_gut(j)
    ELSE parse_generic(j)

\* _build_command, godot-server.py:298-336: the job as the call leaves it (junit_path
\* is set for gdUnit4), and whether it returns a command or None
build_command(j) ==
    IF j.framework = "gdUnit4" THEN [cmd |-> TRUE, job |-> [j EXCEPT !.junit_path = "results.xml"]]
    ELSE IF j.framework = "GUT" THEN [cmd |-> TRUE, job |-> j]
    ELSE [cmd |-> FALSE, job |-> j]

\* ------------------------------------------------- TestExecutor: what the test command does

Counts == 0..MaxCount
\* Triples of printed counts: the small ones, 'Tests: 5, Passed: 5, Failed: 0' of the
\* specification, and one with numbers of two digits
Examples == {<<5, 5, 0>>, <<12, 10, 2>>}
Triples == (Counts \X Counts \X Counts) \cup Examples

\* "Tests run: a  Passing: b  Failing: c", the line GUT prints (godot-server.py:377)
gut_line(c) ==
    <<"Tests", " ", "run", ":", " ">> \o str(c[1]) \o <<" ", " ", "Passing", ":", " ">>
    \o str(c[2]) \o <<" ", " ", "Failing", ":", " ">> \o str(c[3])
\* "a tests, b passed, c failed"
tests_line(c) ==
    str(c[1]) \o <<" ", "tests", ",", " ">> \o str(c[2]) \o <<" ", "passed", ",", " ">>
    \o str(c[3]) \o <<" ", "failed">>
\* "Tests: a, Passed: b, Failed: c"
summary_line(c) ==
    <<"Tests", ":", " ">> \o str(c[1]) \o <<",", " ", "Passed", ":", " ">> \o str(c[2])
    \o <<",", " ", "Failed", ":", " ">> \o str(c[3])
\* "PASSED = n"
passed_line(n) == <<"PASSED", " ", "=", " ">> \o str(n)

OtherLines == {<<"All", " ", "tests", " ", "passed">>, <<"OK">>, <<"x">>}
Lines ==
    {gut_line(c) : c \in Triples} \cup {tests_line(c) : c \in Triples}
    \cup {summary_line(c) : c \in Triples} \cup {passed_line(n) : n \in Counts \cup {12}}
    \cup OtherLines
\* The lines a longer output goes on with: one of each kind
MoreLines ==
    {gut_line(<<12, 10, 2>>), tests_line(<<12, 10, 2>>), summary_line(<<12, 10, 2>>),
     passed_line(12)} \cup OtherLines

RECURSIVE Outputs(_)
\* The outputs of at most n lines
Outputs(n) ==
    IF n = 0 THEN {<<>>}
    ELSE IF n = 1 THEN {<<>>} \cup Lines
    ELSE Outputs(n - 1)
         \cup {t \o <<"\n">> \o l : t \in Outputs(n - 1) \ {<<>>}, l \in MoreLines}

\* The outputs drawn together with every report
FewOutputs == {<<>>, <<"OK">>, <<"x">>, summary_line(<<5, 5, 0>>)}

\* The texts of a report's attributes: counts, a negative number, no number
AttrValues ==
    {NoAttr} \cup {Attr(str(n)) : n \in Counts} \cup {Attr(<<"-", "1">>), Attr(<<"x">>)}
\* The reports: with tests="10" failures="2" errors="1" of the specification
Reports ==
    {NoReport, Malformed, NoTestsuite, Testsuite(Attr(str(10)), Attr(str(2)), Attr(str(1)))}
    \cup {Testsuite(t, f, e) : t \in AttrValues, f \in AttrValues, e \in AttrValues}

\* What the test command prints and what it leaves in results.xml, by framework
Program(f, o, r) == [framework |-> f, output |-> o, report |-> r]
Programs ==
    {Program("gdUnit4", o, r) : o \in Outputs(MaxLines), r \in {NoReport, Malformed}}
    \cup {Program("gdUnit4", o, r) : o \in FewOutputs, r \in Reports}
    \cup {Program("GUT", o, NoReport) : o \in Outputs(MaxLines)}
    \cup {Program(f, <<>>, NoReport) : f \in Frameworks \ {"gdUnit4", "GUT"}}

VARIABLES
    job,        \* the TestJob objects, by job_id (objects outlive their registry entry)
    nextId,     \* the next job_id a handler creates (uuid4: always fresh)
    jobs,       \* JobQueue.jobs: the registry's keys in dict insertion order
    queue,      \* JobQueue.queue: the admission channel (queue.Queue), head first
    maxsize,    \* the maxsize JobQueue was constructed with
    active_job, \* JobQueue.active_job
    lock,       \* JobQueue.lock: "free", or the step of cancel_job that holds it
    lockJob,    \* the job cancel_job holds the lock for
    wpc,        \* worker_thread's position
    wjob,       \* worker_thread's local `job`
    inflight,   \* job ids whose external test command is running
    total_jobs_processed,
    now,        \* the clock
    last,       \* the answer of the call that made the last step, if it returned one
    dequeued,   \* history: the jobs get_next returned, in order
    cancelOk,   \* history: the jobs for which cancel_job returned True
    published,  \* history: the jobs update_job has stored, in order
    answered,   \* the highest job_id whose submit_test request has been answered
    tjob,       \* the TestJob one call of execute works on, with all its fields
    world,      \* what that call has found and done outside the job object
    program,    \* what the job's test command prints and writes when it runs
    xpc         \* that call's position in execute

vars == <<job, nextId, jobs, queue, maxsize, active_job, lock, lockJob, wpc, wjob,
          inflight, total_jobs_processed, now, last, dequeued, cancelOk, published,
          answered, tjob, world, program, xpc>>

\* The variables of the followed call of execute
xvars == <<tjob, world, program, xpc>>

\* TestJob(...) as the dataclass constructs it, godot-server.py:90-119
TestJob == [status |-> QUEUED, priority |-> NORMAL,
            submitted_at |-> NoTime, started_at |-> NoTime, completed_at |-> NoTime]

NoAnswer == [op |-> "none", id |-> NoJob, ok |-> FALSE]
Answer(o, j, b) == [op |-> o, id |-> j, ok |-> b]

Range(s) == {s[i] : i \in 1..Len(s)}
InRegistry(j) == j \in Range(jobs)

RECURSIVE SelectIds(_, _)
\* [j for j in seq if keep[j]], order kept
SelectIds(s, keep) ==
    IF s = <<>> THEN <<>>
    ELSE IF Head(s) \in keep THEN <<Head(s)>> \o SelectIds(Tail(s), keep)
         ELSE SelectIds(Tail(s), keep)

\* What execute has found and done outside the job object
NoWorld ==
    [project |-> "unknown",    \* what os.path.exists(job.project_path) answered
     artifacts_dir |-> FALSE,  \* the job's artifact directory exists
     log_file |-> FALSE,       \* output.log exists in it
     report |-> NoReport,      \* results.xml in it
     started |-> 0,            \* test commands started
     ended |-> "no",           \* how subprocess.run ended: "exit", "timeout", "error"
     returncode |-> 0,
     captured |-> FALSE,       \* TimeoutExpired carries captured output
     parsed |-> FALSE]         \* _parse_results was called

\* No call of execute is followed: the worker's steps above stand for it.
ExecutorIdle ==
    /\ tjob = ExecJob("gdUnit4", DEFAULT_TIMEOUT)
    /\ world = NoWorld
    /\ program = Program("gdUnit4", <<>>, NoReport)
    /\ xpc = "idle"

\* JobQueue.__init__, godot-server.py:135-139, and the module state, 424-428
Init ==
    /\ job = [j \in Ids |-> TestJob]
    /\ nextId = 1
    /\ jobs = <<>>
    /\ queue = <<>>
    /\ maxsize = MAX_QUEUE_SIZE
    /\ active_job = NoJob
    /\ lock = "free"
    /\ lockJob = NoJob
    /\ wpc = "idle"
    /\ wjob = NoJob
    /\ inflight = {}
    /\ total_jobs_processed = 0
    /\ now = 0
    /\ last = NoAnswer
    /\ dequeued = <<>>
    /\ cancelOk = {}
    /\ published = <<>>
    /\ answered = 0
    /\ ExecutorIdle

\* JobQueue(maxsize=N) for the capacities of Capacities
InitCap ==
    /\ job = [j \in Ids |-> TestJob]
    /\ nextId = 1
    /\ jobs = <<>>
    /\ queue = <<>>
    /\ maxsize \in Capacities
    /\ active_job = NoJob
    /\ lock = "free"
    /\ lockJob = NoJob
    /\ wpc = "idle"
    /\ wjob = NoJob
    /\ inflight = {}
    /\ total_jobs_processed = 0
    /\ now = 0
    /\ last = NoAnswer
    /\ dequeued = <<>>
    /\ cancelOk = {}
    /\ published = <<>>
    /\ answered = 0
    /\ ExecutorIdle

\* datetime.now() advances
Tick ==
    /\ now < MaxTime
    /\ now' = now + 1
    /\ last' = NoAnswer
    /\ UNCHANGED <<job, nextId, jobs, queue, maxsize, active_job, lock, lockJob, wpc,
                   wjob, inflight, total_jobs_processed, dequeued, cancelOk>>
    /\ UNCHANGED <<published, answered, xvars>>

\* ---------------------------------------------------------------- JobQueue

\* JobQueue.submit, godot-server.py:141-155, called by submit_test (466-506) with a
\* TestJob it has just created with a fresh job_id.  One step: the whole body runs
\* under the lock and touches nothing the worker writes without it.
\*   len(self.jobs) >= MAX_QUEUE_SIZE  -> return False, nothing stored
\*   queue.put(block=False) raises Full (after the registry insert) -> the
\*       except clause returns False
submit(p) ==
    /\ lock = "free"
    /\ nextId <= MaxJobs
    /\ nextId' = nextId + 1
    /\ IF Len(jobs) >= MAX_QUEUE_SIZE
       THEN /\ job' = [job EXCEPT ![nextId].priority = p]
            /\ UNCHANGED <<jobs, queue>>
            /\ last' = Answer("submit", nextId, FALSE)
       ELSE /\ job' = [job EXCEPT ![nextId].priority = p, ![nextId].submitted_at = now]
            /\ jobs' = Append(jobs, nextId)
            /\ IF maxsize > 0 /\ Len(queue) >= maxsize
               THEN /\ UNCHANGED queue
                    /\ last' = Answer("submit", nextId, FALSE)
               ELSE /\ queue' = Append(queue, nextId)
                    /\ last' = Answer("submit", nextId, TRUE)
    /\ UNCHANGED <<maxsize, active_job, lock, lockJob, wpc, wjob, inflight,
                   total_jobs_processed, now, dequeued, cancelOk>>
    /\ UNCHANGED <<published, answered, xvars>>

\* JobQueue.cancel_job, godot-server.py:177-190, called by cancel_test (586-596):
\* takes the lock, looks the job up and reads its status.  With no such job, or a
\* status other than QUEUED, it returns False (lock' = "free") having written nothing.
cancel_job(j) ==
    /\ lock = "free"
    /\ IF InRegistry(j) /\ job[j].status = QUEUED
       THEN /\ lock' = "cancel_status"
            /\ lockJob' = j
            /\ last' = NoAnswer
       ELSE /\ UNCHANGED <<lock, lockJob>>
            /\ last' = NoAnswer
    /\ UNCHANGED <<job, nextId, jobs, queue, maxsize, active_job, wpc, wjob, inflight,
                   total_jobs_processed, now, dequeued, cancelOk>>
    /\ UNCHANGED <<published, answered, xvars>>

\* Mutant of cancel_set_status: every QUEUED job of the registry is marked.
cancel_set_status_of_all ==
    /\ lock = "cancel_status"
    /\ job' = [k \in Ids |-> IF InRegistry(k) /\ job[k].status = QUEUED
                              THEN [job[k] EXCEPT !.status = CANCELLED]
                              ELSE job[k]]
    /\ lock' = "cancel_stamp"
    /\ last' = NoAnswer
    /\ UNCHANGED <<nextId, jobs, queue, maxsize, active_job, lockJob, wpc, wjob,
                   inflight, total_jobs_processed, now, dequeued, cancelOk>>
    /\ UNCHANGED <<published, answered, xvars>>

\* cancel_job, godot-server.py:185: job.status = JobStatus.CANCELLED
cancel_set_status ==
    /\ lock = "cancel_status"
    /\ job' = [job EXCEPT ![lockJob].status = CANCELLED]
    /\ lock' = "cancel_stamp"
    /\ last' = NoAnswer
    /\ UNCHANGED <<nextId, jobs, queue, maxsize, active_job, lockJob, wpc, wjob,
                   inflight, total_jobs_processed, now, dequeued, cancelOk>>
    /\ UNCHANGED <<published, answered, xvars>>

\* cancel_job, godot-server.py:186-187: job.completed_at = now; return True
cancel_stamp ==
    /\ lock = "cancel_stamp"
    /\ job' = [job EXCEPT ![lockJob].completed_at = now]
    /\ lock' = "free"
    /\ lockJob' = NoJob
    /\ cancelOk' = cancelOk \cup {lockJob}
    /\ last' = Answer("cancel", lockJob, TRUE)
    /\ UNCHANGED <<nextId, jobs, queue, maxsize, active_job, wpc, wjob, inflight,
                   total_jobs_processed, now, dequeued>>
    /\ UNCHANGED <<published, answered, xvars>>

\* The jobs cleanup_old_jobs(days) deletes, godot-server.py:212-215
old_jobs(days) ==
    {j \in Range(jobs) : job[j].completed_at # NoTime /\ job[j].completed_at < now - days}

\* JobQueue.cleanup_old_jobs, godot-server.py:210-218.  Nothing in the repository
\* calls it; it is the queue's retention sweep, run from outside at any moment.
\* (With nothing old enough it deletes nothing: no change of state.)
cleanup_old_jobs(days) ==
    /\ lock = "free"
    /\ old_jobs(days) # {}
    /\ jobs' = SelectIds(jobs, Range(jobs) \ old_jobs(days))
    /\ last' = NoAnswer
    /\ UNCHANGED <<job, nextId, queue, maxsize, active_job, lock, lockJob, wpc, wjob,
                   inflight, total_jobs_processed, now, dequeued, cancelOk>>
    /\ UNCHANGED <<published, answered, xvars>>

RECURSIVE SortBySubmitted(_)
\* list.sort(key=lambda j: j.submitted_at): stable insertion into the sorted rest
InsertSorted(j, s) ==
    LET before == SelectIds(s, {k \in Range(s) : job[k].submitted_at < job[j].submitted_at})
        after  == SelectIds(s, {k \in Range(s) : job[k].submitted_at >= job[j].submitted_at})
    IN  before \o <<j>> \o after
SortBySubmitted(s) ==
    IF s = <<>> THEN <<>>
    ELSE InsertSorted(Head(s), SortBySubmitted(Tail(s)))

\* Mutant of queued_jobs: the status filter is left out.
queued_jobs_unfiltered == SortBySubmitted(jobs)

\* queued_jobs of get_queue_position and view_queue, godot-server.py:195-197
queued_jobs ==
    SortBySubmitted(SelectIds(jobs, {j \in Range(jobs) : job[j].status = QUEUED}))

\* JobQueue.get_queue_position, godot-server.py:192-202
get_queue_position(j) ==
    LET q == queued_jobs
    IN  IF \E i \in 1..Len(q) : q[i] = j
        THEN CHOOSE i \in 1..Len(q) : q[i] = j
        ELSE 0

\* JobQueue.get_queue_depth, godot-server.py:204-208
get_queue_depth == Cardinality({j \in Range(jobs) : job[j].status = QUEUED})

\* ------------------------------------------------- worker_thread and execute

\* The job a PriorityQueue keyed by priority would hand out: the first of the most
\* urgent ones (HIGH = 1).
MostUrgent(q) ==
    CHOOSE i \in 1..Len(q) :
        /\ \A k \in 1..Len(q) : job[q[i]].priority <= job[q[k]].priority
        /\ \A k \in 1..(i - 1) : job[q[k]].priority > job[q[i]].priority

\* Mutant of get_next: the channel hands out jobs by priority.
get_next_by_priority ==
    /\ wpc = "idle"
    /\ queue # <<>>
    /\ LET i == MostUrgent(queue) IN
       /\ wjob' = queue[i]
       /\ queue' = SubSeq(queue, 1, i - 1) \o SubSeq(queue, i + 1, Len(queue))
       /\ dequeued' = Append(dequeued, queue[i])
    /\ wpc' = "got"
    /\ last' = NoAnswer
    /\ UNCHANGED <<job, nextId, jobs, maxsize, active_job, lock, lockJob, inflight,
                   total_jobs_processed, now, cancelOk>>
    /\ UNCHANGED <<published, answered, xvars>>

\* Mutant of get_next: the head of the channel is read and left in the channel.
get_next_peeking ==
    /\ wpc = "idle"
    /\ queue # <<>>
    /\ wjob' = Head(queue)
    /\ UNCHANGED queue
    /\ dequeued' = Append(dequeued, Head(queue))
    /\ wpc' = "got"
    /\ last' = NoAnswer
    /\ UNCHANGED <<job, nextId, jobs, maxsize, active_job, lock, lockJob, inflight,
                   total_jobs_processed, now, cancelOk>>
    /\ UNCHANGED <<published, answered, xvars>>

\* JobQueue.get_next, godot-server.py:160: self.queue.get(timeout) returns the head
\* of the channel.  (On Empty get_next returns None and the loop repeats: no
\* change of state.)  The channel has its own mutex; self.lock is not needed here.
get_next ==
    /\ wpc = "idle"
    /\ queue # <<>>
    /\ wjob' = Head(queue)
    /\ queue' = Tail(queue)
    /\ dequeued' = Append(dequeued, Head(queue))
    /\ wpc' = "got"
    /\ last' = NoAnswer
    /\ UNCHANGED <<job, nextId, jobs, maxsize, active_job, lock, lockJob, inflight,
                   total_jobs_processed, now, cancelOk>>
    /\ UNCHANGED <<published, answered, xvars>>

\* Mutant of set_active_job: get_next returns without releasing the lock.
set_active_job_keeping_lock ==
    /\ wpc = "got"
    /\ lock = "free"
    /\ lock' = "get_next"
    /\ active_job' = wjob
    /\ wpc' = "execute"
    /\ last' = NoAnswer
    /\ UNCHANGED <<job, nextId, jobs, queue, maxsize, lockJob, wjob, inflight,
                   total_jobs_processed, now, dequeued, cancelOk>>
    /\ UNCHANGED <<published, answered, xvars>>

\* get_next, godot-server.py:161-163: with self.lock: self.active_job = job
set_active_job ==
    /\ wpc = "got"
    /\ lock = "free"
    /\ active_job' = wjob
    /\ wpc' = "execute"
    /\ last' = NoAnswer
    /\ UNCHANGED <<job, nextId, jobs, queue, maxsize, lock, lockJob, wjob, inflight,
                   total_jobs_processed, now, dequeued, cancelOk>>
    /\ UNCHANGED <<published, answered, xvars>>

\* TestExecutor.execute, godot-server.py:233: job.status = JobStatus.RUNNING
\* (whatever the status was; self.lock is not taken anywhere in execute)
execute_set_running ==
    /\ wpc = "execute"
    /\ job' = [job EXCEPT ![wjob].status = RUNNING]
    /\ wpc' = "started_at"
    /\ last' = NoAnswer
    /\ UNCHANGED <<nextId, jobs, queue, maxsize, active_job, lock, lockJob, wjob,
                   inflight, total_jobs_processed, now, dequeued, cancelOk>>
    /\ UNCHANGED <<published, answered, xvars>>

\* execute, godot-server.py:234: job.started_at = datetime.now()
execute_set_started ==
    /\ wpc = "started_at"
    /\ job' = [job EXCEPT ![wjob].started_at = now]
    /\ wpc' = "prepare"
    /\ last' = NoAnswer
    /\ UNCHANGED <<nextId, jobs, queue, maxsize, active_job, lock, lockJob, wjob,
                   inflight, total_jobs_processed, now, dequeued, cancelOk>>
    /\ UNCHANGED <<published, answered, xvars>>

\* execute, godot-server.py:237-239 and 250-252: the project path does not exist, or
\* _build_command returns None (unsupported framework): job.status = FAILED
execute_invalid ==
    /\ wpc = "prepare"
    /\ job' = [job EXCEPT ![wjob].status = FAILED]
    /\ wpc' = "completed_at"
    /\ last' = NoAnswer
    /\ UNCHANGED <<nextId, jobs, queue, maxsize, active_job, lock, lockJob, wjob,
                   inflight, total_jobs_processed, now, dequeued, cancelOk>>
    /\ UNCHANGED <<published, answered, xvars>>

\* execute, godot-server.py:244-245: job_artifacts_dir.mkdir raises (OSError).  The
\* call is outside execute's try block: the exception leaves execute, is caught by
\* worker_thread's except clause (459-461), and the loop goes on.
execute_mkdir_raises ==
    /\ wpc = "prepare"
    /\ wpc' = "idle"
    /\ wjob' = NoJob
    /\ last' = NoAnswer
    /\ UNCHANGED <<job, nextId, jobs, queue, maxsize, active_job, lock, lockJob,
                   inflight, total_jobs_processed, now, dequeued, cancelOk>>
    /\ UNCHANGED <<published, answered, xvars>>

\* execute, godot-server.py:260-266: subprocess.run starts the test command
execute_run ==
    /\ wpc = "prepare"
    /\ inflight' = inflight \cup {wjob}
    /\ wpc' = "subprocess"
    /\ last' = NoAnswer
    /\ UNCHANGED <<job, nextId, jobs, queue, maxsize, active_job, lock, lockJob, wjob,
                   total_jobs_processed, now, dequeued, cancelOk>>
    /\ UNCHANGED <<published, answered, xvars>>

\* execute, godot-server.py:260-266, 290-292: subprocess.run raises before a process
\* exists (command not found, invalid cwd): job.status = FAILED
execute_launch_error ==
    /\ wpc = "prepare"
    /\ job' = [job EXCEPT ![wjob].status = FAILED]
    /\ wpc' = "completed_at"
    /\ last' = NoAnswer
    /\ UNCHANGED <<nextId, jobs, queue, maxsize, active_job, lock, lockJob, wjob,
                   inflight, total_jobs_processed, now, dequeued, cancelOk>>
    /\ UNCHANGED <<published, answered, xvars>>

\* Mutant of execute_finish: the command is started without being waited for
\* (Popen in place of run), so execute goes on while the process lives.
execute_finish_unwaited(s) ==
    /\ wpc = "subprocess"
    /\ UNCHANGED inflight
    /\ job' = [job EXCEPT ![wjob].status = s]
    /\ wpc' = "completed_at"
    /\ last' = NoAnswer
    /\ UNCHANGED <<nextId, jobs, queue, maxsize, active_job, lock, lockJob, wjob,
                   total_jobs_processed, now, dequeued, cancelOk>>
    /\ UNCHANGED <<published, answered, xvars>>

\* execute, godot-server.py:260-292: subprocess.run returns or raises once the
\* process is gone:  the process exited -> COMPLETE (278);  TimeoutExpired, the
\* process killed and reaped -> TIMEOUT (285);  another exception, e.g. writing
\* the log -> FAILED (291)
execute_finish(s) ==
    /\ wpc = "subprocess"
    /\ inflight' = inflight \ {wjob}
    /\ job' = [job EXCEPT ![wjob].status = s]
    /\ wpc' = "completed_at"
    /\ last' = NoAnswer
    /\ UNCHANGED <<nextId, jobs, queue, maxsize, active_job, lock, lockJob, wjob,
                   total_jobs_processed, now, dequeued, cancelOk>>
    /\ UNCHANGED <<published, answered, xvars>>

\* execute, godot-server.py:240, 253, 279, 287, 293: job.completed_at = datetime.now()
execute_set_completed ==
    /\ wpc = "completed_at"
    /\ job' = [job EXCEPT ![wjob].completed_at = now]
    /\ wpc' = "update_job"
    /\ last' = NoAnswer
    /\ UNCHANGED <<nextId, jobs, queue, maxsize, active_job, lock, lockJob, wjob,
                   inflight, total_jobs_processed, now, dequeued, cancelOk>>
    /\ UNCHANGED <<published, answered, xvars>>

\* JobQueue.update_job, godot-server.py:172-175, called at 447:
\* self.jobs[job.job_id] = job (a key the registry lost is inserted again, last)
update_job ==
    /\ wpc = "update_job"
    /\ lock = "free"
    /\ jobs' = IF InRegistry(wjob) THEN jobs ELSE Append(jobs, wjob)
    /\ wpc' = "count"
    /\ last' = NoAnswer
    /\ UNCHANGED <<job, nextId, queue, maxsize, active_job, lock, lockJob, wjob,
                   inflight, total_jobs_processed, now, dequeued, cancelOk>>
    /\ published' = Append(published, wjob)
    /\ UNCHANGED <<answered, xvars>>

\* Mutant of count_processed: the job is counted without having been published.
count_unpublished ==
    /\ wpc \in {"update_job", "count"}
    /\ total_jobs_processed' = total_jobs_processed + 1
    /\ wpc' = "callback"
    /\ last' = NoAnswer
    /\ UNCHANGED <<job, nextId, jobs, queue, maxsize, active_job, lock, lockJob, wjob,
                   inflight, now, dequeued, cancelOk>>
    /\ UNCHANGED <<published, answered, xvars>>

\* worker_thread, godot-server.py:449: total_jobs_processed += 1
count_processed ==
    /\ wpc = "count"
    /\ total_jobs_processed' = total_jobs_processed + 1
    /\ wpc' = "callback"
    /\ last' = NoAnswer
    /\ UNCHANGED <<job, nextId, jobs, queue, maxsize, active_job, lock, lockJob, wjob,
                   inflight, now, dequeued, cancelOk>>
    /\ UNCHANGED <<published, answered, xvars>>

\* worker_thread, godot-server.py:452-455: if job.callback_url: requests.post(...,
\* timeout=5), called in the worker's own thread.  callback_url is a field the
\* client set at submission that nothing else reads: its value is drawn here,
\* where it is read.  Without a target the loop is back at its head.  The call
\* is recorded as the event Answer("callback", job, TRUE).
send_callback(callback_url) ==
    /\ wpc = "callback"
    /\ IF callback_url
       THEN /\ wpc' = "post"
            /\ UNCHANGED wjob
            /\ last' = Answer("callback", wjob, TRUE)
       ELSE /\ wpc' = "idle"
            /\ wjob' = NoJob
            /\ last' = NoAnswer
    /\ UNCHANGED <<job, nextId, jobs, queue, maxsize, active_job, lock, lockJob,
                   inflight, total_jobs_processed, now, dequeued, cancelOk>>
    /\ UNCHANGED <<published, answered, xvars>>

\* Mutant of callback_returns: a post that failed is tried again.
callback_retried(delivered) ==
    /\ wpc = "post"
    /\ IF delivered
       THEN /\ wpc' = "idle"
            /\ wjob' = NoJob
       ELSE /\ wpc' = "callback"
            /\ UNCHANGED wjob
    /\ last' = Answer("callback_returned", wjob, delivered)
    /\ UNCHANGED <<job, nextId, jobs, queue, maxsize, active_job, lock, lockJob,
                   inflight, total_jobs_processed, now, dequeued, cancelOk>>
    /\ UNCHANGED <<published, answered, xvars>>

\* worker_thread, godot-server.py:455-457: requests.post returns (delivered) or
\* raises (no connection, the timeout of 5 s, a body that cannot be encoded);
\* the exception is logged and swallowed.  Back to the head of the loop.
callback_returns(delivered) ==
    /\ wpc = "post"
    /\ wpc' = "idle"
    /\ wjob' = NoJob
    /\ last' = Answer("callback_returned", wjob, delivered)
    /\ UNCHANGED <<job, nextId, jobs, queue, maxsize, active_job, lock, lockJob,
                   inflight, total_jobs_processed, now, dequeued, cancelOk>>
    /\ UNCHANGED <<published, answered, xvars>>

\* worker_thread, godot-server.py:431-461
worker_thread ==
    \/ get_next
    \/ set_active_job
    \/ execute_set_running
    \/ execute_set_started
    \/ execute_invalid
    \/ execute_mkdir_raises
    \/ execute_run
    \/ execute_launch_error
    \/ \E s \in {COMPLETE, TIMEOUT, FAILED} : execute_finish(s)
    \/ execute_set_completed
    \/ update_job
    \/ count_processed
    \/ \E callback_url \in BOOLEAN : send_callback(callback_url)
    \/ \E delivered \in BOOLEAN : callback_returns(delivered)

\* The request handlers (Flask, threaded=True) other than submit_test, and the sweep
handlers ==
    \/ \E j \in Ids : cancel_job(j)
    \/ cancel_set_status
    \/ cancel_stamp
    \/ \E d \in SweepDays : cleanup_old_jobs(d)

\* Clients that leave the priority at its default, godot-server.py:486
Next == submit(NORMAL) \/ handlers \/ worker_thread \/ Tick

\* Clients that send any priority
NextPriority == (\E p \in Priority : submit(p)) \/ handlers \/ worker_thread \/ Tick

\* The service as main() starts it: job_queue = JobQueue(), one worker thread
Spec == Init /\ [][Next]_vars

\* A JobQueue constructed with any capacity
SpecCap == InitCap /\ [][Next]_vars

\* The service with clients choosing priorities
SpecPriority == Init /\ [][NextPriority]_vars

\* ------------------------------------------------------- the HTTP handlers

\* Priority[name], godot-server.py:83-87: the members of the Enum by name
PriorityByName == [HIGH |-> 1, NORMAL |-> NORMAL, LOW |-> 3]

\* dict.get(key, default)
get(d, key, default) == IF key \in DOMAIN d THEN d[key] ELSE default

\* request.json of POST /test/submit: a JSON object with the keys the handler
\* reads that matter for the queue, or a JSON value that is no object
Body(o, d) == [object |-> o, data |-> d]
Bodies ==
    {Body(TRUE, [project_path |-> "res://project"]),
     Body(TRUE, [project_path |-> "res://project", priority |-> "NORMAL"]),
     Body(TRUE, [project_path |-> "res://project", priority |-> "URGENT"]),
     Body(TRUE, [project_path |-> ""]),
     Body(TRUE, [priority |-> "NORMAL"]),
     Body(FALSE, [priority |-> "NORMAL"])}

\* jsonify(body), code: what a handler returns
Response(o, j, c, b) == [op |-> o, id |-> j, ok |-> c < 400, code |-> c, body |-> b]

\* The submit_test request whose job has been submitted and not yet answered for
Outstanding == answered < nextId - 1

\* JobQueue.submit returned True for job j: it put j into the channel
Admitted(j) == j \in Range(queue) \/ j \in Range(dequeued)

\* submit_test, godot-server.py:469-490, up to and including job_queue.submit(job):
\*   data.get raises for a body that is no object          -> except: 500
\*   no (or an empty) project_path                         -> 400
\*   Priority[name] raises KeyError for an unknown name    -> except: 500
\*   otherwise the TestJob is created and submitted; the handler goes on in
\*   submit_test_respond.
\* One request is followed at a time.
submit_test(body) ==
    /\ ~Outstanding
    /\ IF ~body.object
       THEN /\ last' = Response("submit_test", NoJob, 500, [error |-> "AttributeError"])
            /\ UNCHANGED <<job, nextId, jobs, queue>>
       ELSE IF get(body.data, "project_path", "") = ""
       THEN /\ last' = Response("submit_test", NoJob, 400,
                                [error |-> "project_path is required"])
            /\ UNCHANGED <<job, nextId, jobs, queue>>
       ELSE IF get(body.data, "priority", "NORMAL") \notin DOMAIN PriorityByName
       THEN /\ last' = Response("submit_test", NoJob, 500, [error |-> "KeyError"])
            /\ UNCHANGED <<job, nextId, jobs, queue>>
       ELSE submit(PriorityByName[get(body.data, "priority", "NORMAL")])
    /\ UNCHANGED <<maxsize, active_job, lock, lockJob, wpc, wjob, inflight,
                   total_jobs_processed, now, dequeued, cancelOk>>
    /\ UNCHANGED <<published, answered, xvars>>

\* submit_test, godot-server.py:490-503: submit returned False -> 503; otherwise
\* get_queue_position (under the lock) and job.status are read and 202 is returned
submit_test_respond ==
    /\ Outstanding
    /\ answered' = nextId - 1
    /\ IF ~Admitted(nextId - 1)
       THEN last' = Response("submit_test", nextId - 1, 503, [error |-> "Queue is full"])
       ELSE /\ lock = "free"
            /\ last' = Response("submit_test", nextId - 1, 202,
                                [status |-> job[nextId - 1].status,
                                 queue_position |-> get_queue_position(nextId - 1),
                                 estimated_wait_seconds |->
                                     get_queue_position(nextId - 1) * 120])
    /\ UNCHANGED <<job, nextId, jobs, queue, maxsize, active_job, lock, lockJob, wpc,
                   wjob, inflight, total_jobs_processed, now, dequeued, cancelOk>>
    /\ UNCHANGED <<published, xvars>>

\* get_status, godot-server.py:509-556.  get_job (167-170) returns, under the lock,
\* the job object itself; the handler then reads its fields without the lock.  The
\* reads are taken here at one moment, the moment of get_job: every answer this
\* gives is one the handler can give (its reads can also be spread over steps of
\* the worker).  result, counts, artifacts and error_message are fields of the
\* job that the queue does not look at; they are followed in execute below.
get_status(j) ==
    /\ lock = "free"
    /\ last' =
         IF ~InRegistry(j)
         THEN Response("get_status", j, 404, [error |-> "Job not found"])
         ELSE IF job[j].status = QUEUED
         THEN Response("get_status", j, 200,
                       [status |-> job[j].status, submitted_at |-> job[j].submitted_at,
                        queue_position |-> get_queue_position(j)])
         ELSE IF job[j].status = RUNNING
         THEN Response("get_status", j, 200,
                       [status |-> job[j].status, submitted_at |-> job[j].submitted_at,
                        started_at |-> job[j].started_at])
         ELSE IF job[j].status \in {COMPLETE, FAILED, TIMEOUT}
         THEN Response("get_status", j, 200,
                       [status |-> job[j].status, submitted_at |-> job[j].submitted_at,
                        started_at |-> job[j].started_at,
                        completed_at |-> job[j].completed_at])
         ELSE Response("get_status", j, 200,
                       [status |-> job[j].status, submitted_at |-> job[j].submitted_at])
    /\ UNCHANGED <<job, nextId, jobs, queue, maxsize, active_job, lock, lockJob, wpc,
                   wjob, inflight, total_jobs_processed, now, dequeued, cancelOk>>
    /\ UNCHANGED <<published, answered, xvars>>

\* get_results, godot-server.py:559-583: 404 without the job, 400 unless its status
\* is COMPLETE or FAILED, else 200 with result, summary, output and artifacts
\* (fields followed in execute below; the status the answer was decided on is
\* kept in their place)
get_results(j) ==
    /\ lock = "free"
    /\ last' =
         IF ~InRegistry(j)
         THEN Response("get_results", j, 404, [error |-> "Job not found"])
         ELSE IF job[j].status \notin {COMPLETE, FAILED}
         THEN Response("get_results", j, 400, [error |-> "Job not complete"])
         ELSE Response("get_results", j, 200, [status |-> job[j].status])
    /\ UNCHANGED <<job, nextId, jobs, queue, maxsize, active_job, lock, lockJob, wpc,
                   wjob, inflight, total_jobs_processed, now, dequeued, cancelOk>>
    /\ UNCHANGED <<published, answered, xvars>>

\* cancel_test, godot-server.py:586-596: the call of cancel_job and its steps
cancel_test ==
    \/ \E j \in Ids : cancel_job(j)
    \/ cancel_set_status
    \/ cancel_stamp

\* The service as main() runs it, with its HTTP handlers: clients post any of
\* Bodies and ask for the status and the results of any job id.  (Nothing in the
\* repository calls cleanup_old_jobs.)
NextApi ==
    \/ \E body \in Bodies : submit_test(body)
    \/ submit_test_respond
    \/ \E j \in Ids : get_status(j)
    \/ \E j \in Ids : get_results(j)
    \/ cancel_test
    \/ worker_thread
    \/ Tick

SpecApi == Init /\ [][NextApi]_vars

\* ------------------------------------------------- TestExecutor.execute, one call

\* The worker's variables stay as they are while one call of execute is followed.
qvars == <<job, nextId, jobs, queue, maxsize, active_job, lock, lockJob, wpc, wjob,
           inflight, total_jobs_processed, now, last, dequeued, cancelOk, published,
           answered>>

\* worker_thread calls executor.execute(job), godot-server.py:444, for a job of any
\* framework and timeout and a test command of any behaviour
InitExec ==
    /\ job = [j \in Ids |-> TestJob]
    /\ nextId = 1
    /\ jobs = <<>>
    /\ queue = <<>>
    /\ maxsize = MAX_QUEUE_SIZE
    /\ active_job = NoJob
    /\ lock = "free"
    /\ lockJob = NoJob
    /\ wpc = "idle"
    /\ wjob = NoJob
    /\ inflight = {}
    /\ total_jobs_processed = 0
    /\ now = 0
    /\ last = NoAnswer
    /\ dequeued = <<>>
    /\ cancelOk = {}
    /\ published = <<>>
    /\ answered = 0
    /\ program \in Programs
    /\ \E t \in Timeouts : tjob = ExecJob(program.framework, t)
    /\ world = NoWorld
    /\ xpc = "call"

\* str(e) of the exception execute catches, godot-server.py:290-292
str_e == <<"str(e)">>

\* The return statements of execute that follow a failure, godot-server.py:238-241,
\* 251-254, 285-287, 291-293: status, error_message, completed_at
failed_return(j, st, msg) ==
    [j EXCEPT !.status = st, !.error_message = msg, !.completed_at = now]

\* execute, godot-server.py:233-234
execute_begin ==
    /\ xpc = "call"
    /\ tjob' = [tjob EXCEPT !.status = RUNNING, !.started_at = now]
    /\ xpc' = "validate"
    /\ UNCHANGED <<world, program, qvars>>

\* Mutant of validate_project_path: the artifact directory is made before the
\* path is looked at.
validate_after_mkdir(exists) ==
    /\ xpc = "validate"
    /\ world' = [world EXCEPT !.project = IF exists THEN "exists" ELSE "missing",
                              !.artifacts_dir = TRUE]
    /\ IF exists
       THEN /\ xpc' = "mkdir"
            /\ UNCHANGED tjob
       ELSE /\ tjob' = failed_return(tjob, FAILED,
                                     <<"Project path not found: ", "project_path">>)
            /\ xpc' = "returned"
    /\ UNCHANGED <<program, qvars>>

\* execute, godot-server.py:237-241: os.path.exists(job.project_path)
validate_project_path(exists) ==
    /\ xpc = "validate"
    /\ world' = [world EXCEPT !.project = IF exists THEN "exists" ELSE "missing"]
    /\ IF exists
       THEN /\ xpc' = "mkdir"
            /\ UNCHANGED tjob
       ELSE /\ tjob' = failed_return(tjob, FAILED,
                                     <<"Project path not found: ", "project_path">>)
            /\ xpc' = "returned"
    /\ UNCHANGED <<program, qvars>>

\* execute, godot-server.py:244-245: job_artifacts_dir.mkdir(parents=True,
\* exist_ok=True) creates the directory, or raises OSError (no space, no permission).
\* The call is outside the try block: the exception leaves execute.
make_artifacts_dir(ok) ==
    /\ xpc = "mkdir"
    /\ IF ok
       THEN /\ world' = [world EXCEPT !.artifacts_dir = TRUE]
            /\ xpc' = "build"
       ELSE /\ xpc' = "raised"
            /\ UNCHANGED world
    /\ UNCHANGED <<tjob, program, qvars>>

\* execute, godot-server.py:248-254: cmd = self._build_command(...); if not cmd: ...
execute_build_command ==
    /\ xpc = "build"
    /\ LET b == build_command(tjob) IN
       IF b.cmd
       THEN /\ tjob' = b.job
            /\ xpc' = "run"
       ELSE /\ tjob' = failed_return(b.job, FAILED,
                                     <<"Unsupported framework: ", b.job.framework>>)
            /\ xpc' = "returned"
    /\ UNCHANGED <<world, program, qvars>>

\* execute, godot-server.py:260-266: subprocess.run starts the command, or raises
\* before a process exists (godot not found, cwd invalid), caught at 290-293
subprocess_run(started) ==
    /\ xpc = "run"
    /\ IF started
       THEN /\ world' = [world EXCEPT !.started = @ + 1]
            /\ xpc' = "wait"
            /\ UNCHANGED tjob
       ELSE /\ world' = [world EXCEPT !.ended = "error"]
            /\ tjob' = failed_return(tjob, FAILED, str_e)
            /\ xpc' = "returned"
    /\ UNCHANGED <<program, qvars>>

\* execute, godot-server.py:260-268: the process exits with any return code before
\* timeout_seconds have passed, having printed its output and written its report;
\* job.output = result.stdout + result.stderr
subprocess_exits(code) ==
    /\ xpc = "wait"
    /\ world' = [world EXCEPT !.ended = "exit", !.returncode = code,
                              !.report = program.report]
    /\ tjob' = [tjob EXCEPT !.output = program.output]
    /\ xpc' = "log"
    /\ UNCHANGED <<program, qvars>>

\* Mutant of subprocess_timeout: TimeoutExpired is handled by the general
\* except clause.
subprocess_timeout_as_failure(captured) ==
    /\ xpc = "wait"
    /\ world' = [world EXCEPT !.ended = "timeout", !.captured = captured]
    /\ tjob' = failed_return(tjob, FAILED, str_e)
    /\ xpc' = "returned"
    /\ UNCHANGED <<program, qvars>>

\* execute, godot-server.py:260-266, 284-287: the process is still running after
\* timeout_seconds; subprocess.run kills it and raises TimeoutExpired, which carries
\* the output captured so far (if any)
subprocess_timeout(captured) ==
    /\ xpc = "wait"
    /\ world' = [world EXCEPT !.ended = "timeout", !.captured = captured]
    /\ tjob' = failed_return(tjob, TIMEOUT,
                             <<"Test execution exceeded ">> \o str(tjob.timeout_seconds)
                             \o <<"s timeout">>)
    /\ xpc' = "returned"
    /\ UNCHANGED <<program, qvars>>

\* execute, godot-server.py:260-266, 290-293: subprocess.run raises another
\* exception once the process runs (its output cannot be decoded as text)
subprocess_raises ==
    /\ xpc = "wait"
    /\ world' = [world EXCEPT !.ended = "error"]
    /\ tjob' = failed_return(tjob, FAILED, str_e)
    /\ xpc' = "returned"
    /\ UNCHANGED <<program, qvars>>

\* execute, godot-server.py:271-273: log_file.write_text(job.output) writes
\* output.log and job.log_path is set, or it raises OSError, caught at 290-293
write_log(ok) ==
    /\ xpc = "log"
    /\ IF ok
       THEN /\ world' = [world EXCEPT !.log_file = TRUE]
            /\ tjob' = [tjob EXCEPT !.log_path = "output.log"]
            /\ xpc' = "parse"
       ELSE /\ tjob' = failed_return(tjob, FAILED, str_e)
            /\ xpc' = "returned"
            /\ UNCHANGED world
    /\ UNCHANGED <<program, qvars>>

\* execute, godot-server.py:276-279: self._parse_results(job, job_artifacts_dir);
\* job.status = COMPLETE; job.completed_at = datetime.now()
parse_and_complete ==
    /\ xpc = "parse"
    /\ world' = [world EXCEPT !.parsed = TRUE]
    /\ tjob' = [parse_results(tjob, world.report) EXCEPT !.status = COMPLETE,
                                                         !.completed_at = now]
    /\ xpc' = "returned"
    /\ UNCHANGED <<program, qvars>>

\* TestExecutor.execute, godot-server.py:229-296
execute ==
    \/ execute_begin
    \/ \E exists \in BOOLEAN : validate_project_path(exists)
    \/ \E ok \in BOOLEAN : make_artifacts_dir(ok)
    \/ execute_build_command
    \/ \E started \in BOOLEAN : subprocess_run(started)
    \/ \E code \in {0, 1} : subprocess_exits(code)
    \/ \E captured \in BOOLEAN : subprocess_timeout(captured)
    \/ subprocess_raises
    \/ \E ok \in BOOLEAN : write_log(ok)
    \/ parse_and_complete

NextExec == execute

\* One call of TestExecutor.execute, from its first statement to its return or to
\* the exception that leaves it
SpecExec == InitExec /\ [][NextExec]_vars

\* ------------------------------------------------------------------ claims

Registered(st) == {j \in Range(jobs) : job[j].status = st}

\* C1: in every reachable state at most one job of the registry has status RUNNING.
C1_AtMostOneRunning == Cardinality(Registered(RUNNING)) <= 1

\* C2: at most one external test command is in flight at any time, and it is the
\* command of the job the worker is executing.
C2_SingleFlight ==
    /\ Cardinality(inflight) <= 1
    /\ \A j \in inflight : wjob = j /\ wpc = "subprocess"

\* C2 witness: a command is in flight while another admitted job waits in the channel.
C2_Witness == inflight # {} /\ queue # <<>> /\ Len(dequeued) >= 2

\* The edges of the job state machine (spec 4.2)
Edges == {<<QUEUED, RUNNING>>, <<RUNNING, COMPLETE>>, <<RUNNING, FAILED>>,
          <<RUNNING, TIMEOUT>>, <<QUEUED, CANCELLED>>}

\* C3: every status change of every job follows an edge of the state machine (so a
\* terminal status never changes and RUNNING is entered at most once).
C3_OnlyEdges ==
    [][\A j \in Ids : job'[j].status # job[j].status
                        => <<job[j].status, job'[j].status>> \in Edges]_vars

\* C4: once cancel(jobId) has returned true the job is out of the dequeue order: the
\* worker does not dequeue it, its test command is not started, and its status
\* stays CANCELLED.
C4_CancelledNeverRuns ==
    [][\A j \in cancelOk :
          /\ job'[j].status = CANCELLED
          /\ ~(dequeued' # dequeued /\ wjob' = j)
          /\ (j \in inflight' => j \in inflight)]_vars

\* C5: cancel returns true exactly when the job is registered and QUEUED, and its
\* check and its writes are one atomic step: the job it marks CANCELLED is QUEUED
\* when it is marked, and is CANCELLED, stamped with completedAt, when cancel
\* returns; a cancel that returns false changes no job, registry or channel.
C5_CancelAtomic ==
    [][/\ cancel_set_status => job[lockJob].status = QUEUED
       /\ cancel_stamp => /\ job'[lockJob].status = CANCELLED
                          /\ job'[lockJob].completed_at = now
                          /\ job[lockJob].completed_at = NoTime
       /\ \A j \in Ids : cancel_job(j) =>
             /\ (lock' # "free") <=> (InRegistry(j) /\ job[j].status = QUEUED)
             /\ UNCHANGED <<job, jobs, queue>>]_vars

\* C6: for a queue constructed with capacity N, the number of registry entries with
\* status QUEUED never exceeds N.
C6_QueuedWithinCapacity == get_queue_depth <= maxsize

\* C7: submit returns false exactly when the registry holds the configured maximum
\* of entries; returning false it leaves registry and channel unchanged (the job
\* is in neither); returning true it has stamped submittedAt, registered the job
\* as QUEUED and appended it to the channel.
C7_SubmitContract ==
    [][last'.op = "submit" =>
         LET j == last'.id IN
         /\ (~last'.ok) <=> (Len(jobs) >= MAX_QUEUE_SIZE)
         /\ (~last'.ok) => /\ jobs' = jobs
                           /\ queue' = queue
                           /\ j \notin Range(jobs') \cup Range(queue')
         /\ last'.ok => /\ job'[j].submitted_at = now
                        /\ job'[j].status = QUEUED
                        /\ jobs' = Append(jobs, j)
                        /\ queue' = Append(queue, j)]_vars

\* Job ids are handed out inside submit, under the lock: a < b says that a's submit
\* completed before b's.
SubmittedBefore(a, b) == a < b

Rank(j) ==
    1 + Cardinality({k \in Registered(QUEUED) :
                        \/ job[k].submitted_at < job[j].submitted_at
                        \/ job[k].submitted_at = job[j].submitted_at /\ SubmittedBefore(k, j)})

\* C9: queuePosition(j) is the 1-indexed rank of j by submittedAt among the QUEUED
\* registry entries, and 0 when j is unknown or not QUEUED; of two QUEUED jobs the
\* one submitted first has the smaller position.
C9_QueuePosition ==
    /\ \A j \in Ids :
          get_queue_position(j) = IF j \in Registered(QUEUED) THEN Rank(j) ELSE 0
    /\ \A a, b \in Registered(QUEUED) :
          SubmittedBefore(a, b) => get_queue_position(a) < get_queue_position(b)

\* C9 witness: two QUEUED jobs stamped at different times hold positions 1 and 2
\* while the registry also holds a job that is no longer QUEUED.
C9_Witness ==
    \E a, b, c \in Range(jobs) :
        /\ get_queue_position(a) = 1
        /\ get_queue_position(b) = 2
        /\ job[a].submitted_at < job[b].submitted_at
        /\ job[c].status # QUEUED
        /\ get_queue_position(c) = 0

\* C10: activeJob is non-null if and only if exactly one job has status RUNNING.
C10_ActiveIffRunning ==
    (active_job # NoJob) <=> (Cardinality(Registered(RUNNING)) = 1)

\* C11: a sweep removes exactly the registry entries whose completedAt is older than
\* the retention window, and none of the entries it removes is QUEUED or RUNNING at
\* the time of the sweep, whatever happened to the job earlier.
C11_SweepOnlyFinished ==
    [][\A d \in SweepDays : cleanup_old_jobs(d) =>
          /\ Range(jobs) \ Range(jobs') =
                {j \in Range(jobs) : job[j].completed_at # NoTime
                                     /\ now - job[j].completed_at > d}
          /\ \A j \in Range(jobs) \ Range(jobs') : job[j].status \notin {QUEUED, RUNNING}]_vars

\* execute is over: it has returned the job, or an exception has left it
ExecuteLeft == xpc \in {"returned", "raised"}

\* C12: execute never raises: on every path it returns the job with a status in
\* {COMPLETE, FAILED, TIMEOUT} and with startedAt and completedAt set.
C12_ExecuteNeverRaises ==
    /\ xpc # "raised"
    /\ xpc = "returned" => /\ tjob.status \in {COMPLETE, FAILED, TIMEOUT}
                           /\ tjob.started_at # NoTime
                           /\ tjob.completed_at # NoTime

\* C13: a job whose target path does not exist goes from RUNNING to FAILED with a
\* non-empty error message, and execute returns without having created the job's
\* artifact directory or started a command.
C13_MissingPath ==
    [][world'.project = "missing" =>
          /\ tjob.status = RUNNING
          /\ tjob'.status = FAILED
          /\ tjob'.error_message # <<>>
          /\ xpc' = "returned"
          /\ ~world'.artifacts_dir
          /\ world'.started = 0]_vars

\* C13 witness: execute has returned a job whose target path it found missing.
C13_Witness == world.project = "missing" /\ xpc = "returned" /\ tjob.status = FAILED

\* C14: a job whose framework is not a supported one (and whose target path exists)
\* ends FAILED with an error message naming the framework, no command having been
\* started and the result parser not having been called (the outcome is unset).
C14_UnsupportedFramework ==
    (ExecuteLeft /\ world.project = "exists" /\ tjob.framework \notin {"gdUnit4", "GUT"})
    => /\ tjob.status = FAILED
       /\ Contains(tjob.error_message, <<tjob.framework>>)
       /\ world.started = 0
       /\ ~world.parsed
       /\ tjob.result = NoResult

\* The message of the TIMEOUT status names the configured timeout.
StatesTimeout(j) == Contains(j.error_message, str(j.timeout_seconds))

\* C15: the terminal status follows from how the command ended: the process exiting
\* before the deadline gives COMPLETE whatever its exit code, the deadline being
\* exceeded gives TIMEOUT with a message stating the timeout, any other launch or
\* execution error gives FAILED with the error text; TIMEOUT only after a timeout.
C15_StatusByEnding ==
    ExecuteLeft =>
       /\ world.ended = "exit" => tjob.status = COMPLETE
       /\ world.ended = "timeout" => tjob.status = TIMEOUT /\ StatesTimeout(tjob)
       /\ world.ended = "error" => tjob.status = FAILED /\ tjob.error_message = str_e
       /\ tjob.status = TIMEOUT => world.ended = "timeout"

\* C15, amended: as C15, but the process exiting before the deadline gives COMPLETE
\* only if its output is then written to the log; if writing the log fails the job
\* is FAILED with the error text.
C15_StatusByEndingAndLog ==
    ExecuteLeft =>
       /\ (world.ended = "exit" /\ world.log_file) => tjob.status = COMPLETE
       /\ (world.ended = "exit" /\ ~world.log_file)
             => tjob.status = FAILED /\ tjob.error_message = str_e
       /\ world.ended = "timeout" => tjob.status = TIMEOUT /\ StatesTimeout(tjob)
       /\ world.ended = "error" => tjob.status = FAILED /\ tjob.error_message = str_e
       /\ tjob.status = TIMEOUT => world.ended = "timeout"

\* C15 witness: a job is COMPLETE although its command exited with a non-zero code.
C15_Witness ==
    xpc = "returned" /\ world.ended = "exit" /\ world.returncode = 1 /\ tjob.status = COMPLETE

\* C16: when the command exceeds its deadline after output was captured, the job
\* ends TIMEOUT and its log is written: logPath is set and the log file exists.
C16_TimeoutKeepsLog ==
    (ExecuteLeft /\ world.ended = "timeout" /\ world.captured)
    => /\ tjob.status = TIMEOUT
       /\ tjob.log_path # NoPath
       /\ world.log_file

\* C17: every job that reaches COMPLETE has an outcome in {passed, failed}, whatever
\* its framework, the state of its report file and its output.
C17_OutcomeAssigned == tjob.status = COMPLETE => tjob.result \in {"passed", "failed"}

\* The count an attribute text declares: the n that is printed as that text
Declared(a) == CHOOSE n \in 0..99 : str(n) = a.text
Declares(a) == a.has /\ \E n \in 0..99 : str(n) = a.text

C19_CountsConsistent ==
    world.parsed =>
       /\ tjob.tests_run >= 0 /\ tjob.tests_passed >= 0 /\ tjob.tests_failed >= 0
       /\ tjob.tests_passed + tjob.tests_failed = tjob.tests_run

\* What was parsed: outcome, testsRun, testsPassed, testsFailed
Parsed(j) == <<j.result, j.tests_run, j.tests_passed, j.tests_failed>>
FromTriple(g) == <<IF int(g[3]) = 0 THEN "passed" ELSE "failed", int(g[1]), int(g[2]), int(g[3])>>
\* The generic patterns that match the text
Matching(t) == {i \in 1..Len(patterns) : re_search(patterns[i], t, TRUE).ok}
\* The heuristic fallback on text t: the first generic pattern that matches decides;
\* with none, passed on a success marker and failed otherwise, the counts zero
Fallback(t) ==
    IF Matching(t) # {}
    THEN LET i == CHOOSE i \in Matching(t) : \A k \in Matching(t) : i <= k
             g == re_search(patterns[i], t, TRUE).groups IN
         IF i = 3 THEN <<"passed", int(g[1]), int(g[1]), 0>> ELSE FromTriple(g)
    ELSE IF Contains(t, <<"OK">>) \/ Contains(t, <<"All", " ", "tests", " ", "passed">>)
         THEN <<"passed", 0, 0, 0>>
         ELSE <<"failed", 0, 0, 0>>
\* The report cannot be parsed: no well-formed XML, or a count that is no number
Unparsable(r) ==
    \/ r.state = "malformed"
    \/ r.state = "testsuite"
       /\ ~(attr_is_int(r.tests) /\ attr_is_int(r.failures) /\ attr_is_int(r.errors))

\* C20: the structured strategy falls through to the fallback when the report is
\* absent or unparsable, the pattern strategy when its pattern does not match; in
\* the fallback the first generic pattern that matches decides the counts, and with
\* no match the outcome is passed only on a success marker, the counts zero.
C20_FallbackOrder ==
    world.parsed =>
       /\ (tjob.framework = "gdUnit4"
             /\ (world.report.state = "absent" \/ Unparsable(world.report)))
          => Parsed(tjob) = Fallback(tjob.output)
       /\ tjob.framework = "GUT" =>
             LET m == re_search(gut_pattern, tjob.output, FALSE) IN
             Parsed(tjob) = IF m.ok THEN FromTriple(m.groups) ELSE Fallback(tjob.output)

\* The timestamps of a job that are present are in order.
Ordered(j) ==
    /\ (j.submitted_at # NoTime /\ j.started_at # NoTime) => j.submitted_at <= j.started_at
    /\ (j.started_at # NoTime /\ j.completed_at # NoTime) => j.started_at <= j.completed_at
    /\ (j.submitted_at # NoTime /\ j.completed_at # NoTime) => j.submitted_at <= j.completed_at

\* C21: each of submittedAt, startedAt and completedAt of a job is written at most
\* once, and those that are present satisfy submittedAt <= startedAt <= completedAt.
C21_TimestampsOnceAndOrdered ==
    [][\A j \in Ids :
          /\ job[j].submitted_at # NoTime => job'[j].submitted_at = job[j].submitted_at
          /\ job[j].started_at # NoTime => job'[j].started_at = job[j].started_at
          /\ job[j].completed_at # NoTime => job'[j].completed_at = job[j].completed_at
          /\ Ordered(job'[j])]_vars

\* C23: in every reachable state a job that is QUEUED, RUNNING or CANCELLED has
\* outcome unset, counts zero, and empty rawOutput and errorMessage.
C23_NoResultsBeforeTerminal ==
    tjob.status \in {QUEUED, RUNNING, CANCELLED} =>
        /\ tjob.result = NoResult
        /\ tjob.tests_run = 0 /\ tjob.tests_passed = 0 /\ tjob.tests_failed = 0
        /\ tjob.output = <<>>
        /\ tjob.error_message = <<>>

\* C25: when an iteration of the worker that handles a job ends, with or without
\* an error, the job has been given a terminal state (it is not left QUEUED or
\* RUNNING), and the worker is back at the head of its loop, ready to dequeue.
C25_ErrorsCapturedInJob ==
    [][(wjob # NoJob /\ wpc # "idle" /\ wpc' = "idle") =>
          /\ job'[wjob].status \notin {QUEUED, RUNNING}
          /\ wjob' = NoJob]_vars

\* The jobs the worker has taken from the channel and is no longer handling.
Handled == {dequeued[i] : i \in 1..Len(dequeued)} \ {wjob}

\* C24 (liveness, in its finite form): the worker always returns to the head of
\* its loop, and every job it has dequeued and finished handling, unless a cancel
\* touched it, has reached COMPLETE, FAILED or TIMEOUT.
C24_DequeuedJobsFinish ==
    \A j \in Handled :
        (j \notin cancelOk /\ j # lockJob) => job[j].status \in {COMPLETE, FAILED, TIMEOUT}

\* C29: a job whose queue position is p is the p-th job of the channel: exactly
\* p - 1 jobs will be dequeued before it, and position 1 is the next dequeued.
C29_PositionIsDequeueOrder ==
    \A j \in Ids :
        get_queue_position(j) > 0 =>
            /\ get_queue_position(j) <= Len(queue)
            /\ queue[get_queue_position(j)] = j

\* The order of the worker's steps on one job, as transitions: the registry entry
\* is published only by update_job after execute has returned; the counter moves
\* only by one, for the job just published; the callback is posted only after the
\* count, for the job just counted.
StepsInOrder ==
    /\ published' # published =>
          /\ wpc = "update_job" /\ wpc' = "count"
          /\ published' = Append(published, wjob)
          /\ job[wjob].status \in Terminal
    /\ total_jobs_processed' # total_jobs_processed =>
          /\ wpc = "count" /\ wpc' = "callback"
          /\ total_jobs_processed' = total_jobs_processed + 1
          /\ published # <<>> /\ published[Len(published)] = wjob
          /\ job[wjob].status \in Terminal
    /\ last'.op = "callback" =>
          /\ wpc = "callback"
          /\ last'.id = wjob
          /\ total_jobs_processed = Len(published)
          /\ published[Len(published)] = wjob

\* The jobs published and not yet counted: the one between update_job and += 1.
Uncounted == IF wpc = "count" THEN 1 ELSE 0

\* C30 (as stated): the worker's steps on a job happen in the order execute,
\* update_job, counter increment, callback, and at every moment the counter equals
\* the number of jobs that have been published.
C30_CounterEqualsPublished ==
    [][StepsInOrder /\ total_jobs_processed' = Len(published')]_vars

\* C30 (amended): the steps happen in that order, each job is published and
\* counted once, and the counter equals the number of published jobs except
\* between a job's publication and its count, when it is one less.
C30_CounterFollowsPublished ==
    [][/\ StepsInOrder
       /\ total_jobs_processed' = Len(published') - Uncounted'
       /\ \A i, k \in 1..Len(published') : published'[i] = published'[k] => i = k]_vars

\* Two jobs have been executed, published and counted, the second one's callback
\* has just been posted
C30_Witness ==
    /\ total_jobs_processed = 2
    /\ Len(published) = 2
    /\ last.op = "callback" /\ last.id = published[2]

\* C22: a status request that runs concurrently with the worker never sees a
\* partially updated job: not a terminal status with completedAt unset, and not
\* status RUNNING with startedAt unset.  (Outcome and counts are written by
\* execute before the status COMPLETE: C17 and C23 are about them.)
C22_NoTornStatus ==
    (last.op = "get_status" /\ last.code = 200) =>
        /\ last.body.status \in {COMPLETE, FAILED, TIMEOUT} =>
               last.body.completed_at # NoTime
        /\ last.body.status = RUNNING => last.body.started_at # NoTime

\* C26: GET /test/results answers 404 for an unknown id, 400 exactly when the job
\* is QUEUED or RUNNING, and 200 for every job in a terminal state.
C26_ResultsAnswer ==
    last.op = "get_results" =>
        /\ last.code = 404 <=> ~InRegistry(last.id)
        /\ last.code = 400 <=> (InRegistry(last.id) /\ job[last.id].status \in {QUEUED, RUNNING})
        /\ last.code = 200 <=> (InRegistry(last.id) /\ job[last.id].status \in Terminal)

\* C27: POST /test/submit answers 400 when the target is missing, and then
\* registry and channel are unchanged; otherwise the job goes to the queue and
\* the answer is 503 when the queue rejected it and 202 when it admitted it;
\* no submission gets another answer.
C27_SubmitAnswers ==
    [][/\ \A body \in Bodies :
            submit_test(body) =>
                IF get(body.data, "project_path", "") = ""
                THEN /\ last'.op = "submit_test" /\ last'.code = 400
                     /\ UNCHANGED <<job, nextId, jobs, queue>>
                ELSE last'.op = "submit"
       /\ last'.op = "submit_test" =>
            /\ last'.code \in {400, 503, 202}
            /\ last'.code = 503 => last'.id \notin Range(queue') \cup Range(dequeued')
            /\ last'.code = 202 => last'.id \in Range(queue') \cup Range(dequeued')]_vars

\* The worker waits in queue.get, or its test command is running
WorkerWaits == (wpc = "idle" /\ queue = <<>>) \/ inflight # {}

\* C28: submit, get, queuePosition and cancel never block on the worker.  The
\* lock is held only by a step of cancel_job, never across a wait of the worker,
\* and while the worker waits in dequeue or a command runs each operation can
\* take its next step: with the lock free every one of them, and with the lock
\* held the cancel_job that holds it.
C28_NeverBlockedByWorker ==
    /\ lock \in {"free", "cancel_status", "cancel_stamp"}
    /\ WorkerWaits =>
         IF lock = "free"
         THEN /\ nextId <= MaxJobs => ENABLED submit(NORMAL)
              /\ Outstanding => ENABLED submit_test_respond
              /\ \A j \in Ids : /\ ENABLED get_status(j)
                                /\ ENABLED get_results(j)
                                /\ ENABLED cancel_job(j)
         ELSE ENABLED (cancel_set_status \/ cancel_stamp)

\* A status request for the job whose command is running has been answered
C28_Witness ==
    /\ inflight # {}
    /\ last.op = "get_status" /\ last.code = 200
    /\ last.id \in inflight
    /\ last.body.status = RUNNING

\* The number of times job j occurs in the sequence s
Occurrences(s, j) == Cardinality({i \in 1..Len(s) : s[i] = j})

\* C31: the callback is attempted at most once per job, only for a job with a
\* callback target and only after the job's terminal state has been published;
\* a failed delivery is not retried and leaves the job, the registry and the
\* processed counter unchanged.  (Once per job: the post is called only in the
\* iteration that handles the job, that iteration calls it once and ends when the
\* call returns, and no job is dequeued for a second iteration.)
C31_CallbackOnce ==
    [][/\ \A callback_url \in BOOLEAN :
            (send_callback(callback_url) /\ last'.op = "callback") => callback_url
       /\ last'.op = "callback" =>
            /\ wpc = "callback" /\ wpc' = "post"
            /\ last'.id = wjob
            /\ Occurrences(dequeued, wjob) = 1
            /\ Occurrences(published, wjob) = 1
            /\ job[wjob].status \in Terminal
       /\ wpc = "post" =>
            /\ wpc' \in {"post", "idle"}
            /\ wjob' = IF wpc' = "idle" THEN NoJob ELSE wjob
       /\ last'.op = "callback_returned" =>
            /\ wpc = "post" /\ wpc' = "idle"
            /\ UNCHANGED <<job, jobs, queue, total_jobs_processed, published>>]_vars

\* The callback of a job was posted and has failed; the worker is back at the
\* head of its loop
C31_Witness ==
    /\ last.op = "callback_returned" /\ ~last.ok
    /\ wpc = "idle"
    /\ last.id \in Range(published)

\* C32: the callback is fire-and-forget: while the callback of a job is being
\* delivered the worker can dequeue the next job of the channel.
C32_CallbackAsynchronous ==
    (wpc = "post" /\ queue # <<>>) => ENABLED get_next

\* The worker's positions in one iteration, in the order the code passes them
\* ("prepare": after started_at, up to and including the mkdir of the job's
\* artifact directory artifacts_dir / job_id and the start of the command)
WorkerOrder ==
    [idle |-> 0, got |-> 1, execute |-> 2, started_at |-> 3, prepare |-> 4,
     subprocess |-> 5, completed_at |-> 6, update_job |-> 7, count |-> 8,
     callback |-> 9, post |-> 10]

\* C33: each admitted job is handed to the executor at most once.  No job is
\* dequeued twice; within an iteration the worker only moves forward, or back to
\* the head of the loop, so execute is entered once per dequeued job; and a
\* command is started only by that one execute, for the job just dequeued, which
\* (with its artifact directory, named by its job_id) belongs to no other job.
C33_ExecutedAtMostOnce ==
    [][/\ \A j \in Ids : Occurrences(dequeued', j) <= 1
       /\ wpc' # wpc => \/ wpc' = "idle"
                        \/ WorkerOrder[wpc'] > WorkerOrder[wpc]
       /\ (wpc # "idle" /\ wpc' # "idle") => wjob' = wjob
       /\ wpc' \notin {"idle"} => wjob' = dequeued'[Len(dequeued')]
       /\ \A j \in inflight' \ inflight :
            /\ wpc = "prepare" /\ wpc' = "subprocess"
            /\ j = wjob
            /\ inflight = {}]_vars

\* The command of the second job handed to the executor is running
C33_Witness ==
    /\ Len(dequeued) = 2
    /\ inflight = {dequeued[2]}
    /\ dequeued[1] # dequeued[2]

\* C34: no QUEUED job is orphaned: every registry entry with status QUEUED is
\* still in the admission channel, or is the job the worker has just dequeued
\* and not yet marked RUNNING.
C34_NoOrphanedQueuedJob ==
    \A j \in Registered(QUEUED) :
        \/ j \in Range(queue)
        \/ j = wjob /\ wpc \in {"got", "execute"}

\* C35: jobs in a terminal state do not consume admission capacity: a submit
\* made while fewer than the capacity of jobs are QUEUED is accepted.
C35_TerminalJobsFreeCapacity ==
    [][(last'.op = "submit" /\ get_queue_depth < MAX_QUEUE_SIZE) => last'.ok]_vars

\* C36: the 202 answer to POST /test/submit reports status queued and a queue
\* position of at least 1 for the new job.
C36_AcceptedReportsQueued ==
    (last.op = "submit_test" /\ last.code = 202) =>
        /\ last.body.status = QUEUED
        /\ last.body.queue_position >= 1

\* The step changes no field and no registry membership of a job other than J
Frame(J) ==
    \A k \in Ids \ {J} :
        /\ job'[k] = job[k]
        /\ (k \in Range(jobs')) <=> (k \in Range(jobs))

====
